---- MODULE Spec2Model ----
(***************************************************************************)
(* The drop admission engine of contract/src/stage1/drops.rs:              *)
(* Keypom::create_drop and Keypom::add_keys, with the deferred             *)
(* resolve_storage_check continuation of FungibleToken drops.              *)
(*                                                                         *)
(* A call that panics (require!, expect, a checked arithmetic overflow)    *)
(* is reverted as a whole by the runtime: none of its writes, its debit,   *)
(* its promises persist.  Amounts are u128 and counters u64 in the source; *)
(* here they are U128Bits and U64Bits wide.  Whether an overflowing        *)
(* operation panics or wraps is fixed by the build profile                 *)
(* (overflow-checks), which the source file does not decide.               *)
(***************************************************************************)
EXTENDS Integers, Sequences, FiniteSets, TLC

\* ------------------------------------------------------------------ bounds
NumKeys == 2
MaxBatch == 2
MaxDrops == 2
U64Bits == 6
U128Bits == 14

\* ------------------------------------------------------- integer widths
U64Mod == 2 ^ U64Bits
U128Mod == 2 ^ U128Bits
U64Max == U64Mod - 1
U128Max == U128Mod - 1
W64(x) == x % U64Mod
W128(x) == x % U128Mod
Fits64(x) == 0 <= x /\ x < U64Mod
Fits128(x) == 0 <= x /\ x < U128Mod

\* ---------------------------------------------------------------- values
Accounts == {"alice", "bob", "carol"}
Keys == 101 .. (100 + NumKeys)
NoneU == -1
EmptyMap == [x \in {} |-> 0]
IsSome(x) == x # NoneU
UnwrapOr(x, d) == IF x = NoneU THEN d ELSE x

\* crate-level constants used by the handlers (scaled)
ATTACHED_GAS_FROM_WALLET == 5
GAS_OFFSET_IF_FC_EXECUTE == 2
ACCESS_KEY_STORAGE == 1
ACCESS_KEY_BOTH_METHOD_NAMES == "claim,create_account_and_claim"
ACCESS_KEY_CLAIM_METHOD_NAME == "claim"
ACCESS_KEY_CREATE_ACCOUNT_METHOD_NAME == "create_account_and_claim"
YoctoPerGas == 1
calculate_base_allowance(gas) == gas * YoctoPerGas

\* the storage substrate: price per byte and the bytes each write adds
storage_byte_cost == 1
PkEntryBytes == 3
ReverseEntryBytes == 2
FunderDropBytes == 1
DropBaseBytes == 4
NftDataBytes == 2
FtDataBytes == 2
FcDataBytes == 1
MetadataBytes(metadata) == IF metadata = NoneU THEN 0 ELSE metadata
TokenIdBytes(token_id) == Len(token_id)

\* ------------------------------------------------------------ data model
KeyInfo(remaining_uses, allowance, key_id) ==
    [remaining_uses |-> remaining_uses, last_used |-> 0,
     allowance |-> allowance, key_id |-> key_id]

DropConfig(uses_per_key, claim_permission) ==
    [uses_per_key |-> uses_per_key, claim_permission |-> claim_permission]

\* an entry of FCData.methods: Option<Vec<MethodData>>, a MethodData kept
\* as its attached_deposit
NoMethod == [is_some |-> FALSE, deposits |-> << >>]
SomeMethod(deposits) == [is_some |-> TRUE, deposits |-> deposits]

NoFT == [is_some |-> FALSE, contract_id |-> "", balance_per_use |-> 0]
SomeFT(contract_id, balance_per_use) ==
    [is_some |-> TRUE, contract_id |-> contract_id, balance_per_use |-> balance_per_use]
NoNFT == [is_some |-> FALSE, longest_token_id |-> << >>]
SomeNFT(longest_token_id) == [is_some |-> TRUE, longest_token_id |-> longest_token_id]
NoFC == [is_some |-> FALSE, methods |-> << >>, attached_gas |-> NoneU]
SomeFC(methods, attached_gas) ==
    [is_some |-> TRUE, methods |-> methods, attached_gas |-> attached_gas]

\* DropType, one record shape for the four variants
DropTypeSimple ==
    [kind |-> "Simple", longest_token_id |-> << >>, storage_for_longest |-> 0,
     token_ids |-> << >>, contract_id |-> "", balance_per_use |-> 0, ft_storage |-> 0,
     methods |-> << >>, attached_gas |-> NoneU]
DropTypeNFT(longest_token_id, storage_for_longest, token_ids) ==
    [DropTypeSimple EXCEPT !.kind = "NonFungibleToken",
                           !.longest_token_id = longest_token_id,
                           !.storage_for_longest = storage_for_longest,
                           !.token_ids = token_ids]
DropTypeFT(contract_id, balance_per_use, ft_storage) ==
    [DropTypeSimple EXCEPT !.kind = "FungibleToken", !.contract_id = contract_id,
                           !.balance_per_use = balance_per_use,
                           !.ft_storage = ft_storage]
DropTypeFC(methods, attached_gas) ==
    [DropTypeSimple EXCEPT !.kind = "FunctionCall", !.methods = methods,
                           !.attached_gas = attached_gas]

DropBytes(drop_type) ==
    DropBaseBytes
    + (CASE drop_type.kind = "NonFungibleToken" -> NftDataBytes
         [] drop_type.kind = "FungibleToken" -> FtDataBytes
         [] drop_type.kind = "FunctionCall" -> FcDataBytes + Len(drop_type.methods)
         [] OTHER -> 0)

\* ----------------------------------------------------------------- state
VARIABLES
    overflow_checks,      \* build profile: does an overflowing operation panic
    next_drop_id,         \* Keypom.next_drop_id
    drop_for_id,          \* Keypom.drop_for_id: DropId -> Drop
    drop_id_for_pk,       \* Keypom.drop_id_for_pk: PublicKey -> DropId
    drop_ids_for_funder,  \* the funder's set of drops
    user_balances,        \* Keypom.user_balances: AccountId -> Balance
    fees_per_user,        \* Keypom.fees_per_user: AccountId -> (drop fee, key fee)
    drop_fee,             \* Keypom.drop_fee
    key_fee,              \* Keypom.key_fee
    fees_collected,       \* Keypom.fees_collected
    storage_usage,        \* env::storage_usage()
    access_keys,          \* access keys of the contract account: PublicKey -> key
    promises,             \* resolve_storage_check continuations in flight
    ft_status             \* FungibleToken drops: Pending, Funded or Failed

vars == <<overflow_checks, next_drop_id, drop_for_id, drop_id_for_pk,
          drop_ids_for_funder, user_balances, fees_per_user, drop_fee, key_fee,
          fees_collected, storage_usage, access_keys, promises, ft_status>>

\* ------------------------------------------------------ shared helpers
RECURSIVE SumSeq(_)
SumSeq(s) == IF s = << >> THEN 0 ELSE Head(s) + SumSeq(Tail(s))

B2N(b) == IF b THEN 1 ELSE 0

Panic(error) == [ok |-> FALSE, error |-> error]

\* (mutant of KeyIsFree: the result of the insert is not looked at)
KeyIsFreeUnchecked(index, pk) == TRUE

\* self.drop_id_for_pk.insert(pk, &drop_id).is_none()
KeyIsFree(index, pk) == pk \notin DOMAIN index

\* (mutant of KeyLoop: only the first key of the batch is checked)
RECURSIVE KeyLoopFirstKeyOnly(_, _, _, _, _, _)
KeyLoopFirstKeyOnly(public_keys, i, acc, drop_id, num_claims_per_key, actual_allowance) ==
    IF i > Len(public_keys) \/ ~acc.ok THEN acc
    ELSE LET pk == public_keys[i]
             key_map == (pk :> KeyInfo(num_claims_per_key, actual_allowance,
                                       acc.next_key_id)) @@ acc.pks
             bytes == acc.bytes + (IF pk \in DOMAIN acc.pks THEN 0 ELSE PkEntryBytes)
         IN  IF i = 1 /\ pk \in DOMAIN acc.index
             THEN [acc EXCEPT !.ok = FALSE, !.pks = key_map, !.bytes = bytes]
             ELSE KeyLoopFirstKeyOnly(public_keys, i + 1,
                          [ok |-> TRUE, pks |-> key_map,
                           index |-> (pk :> drop_id) @@ acc.index,
                           next_key_id |-> acc.next_key_id + 1,
                           bytes |-> bytes + ReverseEntryBytes],
                          drop_id, num_claims_per_key, actual_allowance)

\* (mutant of KeyLoop: the sequence id is not advanced after a key)
RECURSIVE KeyLoopSameId(_, _, _, _, _, _)
KeyLoopSameId(public_keys, i, acc, drop_id, num_claims_per_key, actual_allowance) ==
    IF i > Len(public_keys) \/ ~acc.ok THEN acc
    ELSE LET pk == public_keys[i]
             key_map == (pk :> KeyInfo(num_claims_per_key, actual_allowance,
                                       acc.next_key_id)) @@ acc.pks
             bytes == acc.bytes + (IF pk \in DOMAIN acc.pks THEN 0 ELSE PkEntryBytes)
         IN  IF ~KeyIsFree(acc.index, pk)
             THEN [acc EXCEPT !.ok = FALSE, !.pks = key_map, !.bytes = bytes]
             ELSE KeyLoopSameId(public_keys, i + 1,
                          [ok |-> TRUE, pks |-> key_map,
                           index |-> (pk :> drop_id) @@ acc.index,
                           next_key_id |-> acc.next_key_id + B2N(i = Len(public_keys)),
                           bytes |-> bytes + ReverseEntryBytes],
                          drop_id, num_claims_per_key, actual_allowance)

\* (mutant of KeyLoop: only a key of another drop is refused)
RECURSIVE KeyLoopOtherDropsOnly(_, _, _, _, _, _)
KeyLoopOtherDropsOnly(public_keys, i, acc, drop_id, num_claims_per_key, actual_allowance) ==
    IF i > Len(public_keys) \/ ~acc.ok THEN acc
    ELSE LET pk == public_keys[i]
             key_map == (pk :> KeyInfo(num_claims_per_key, actual_allowance,
                                       acc.next_key_id)) @@ acc.pks
             bytes == acc.bytes + (IF pk \in DOMAIN acc.pks THEN 0 ELSE PkEntryBytes)
         IN  IF ~KeyIsFree(acc.index, pk) /\ pk \notin DOMAIN acc.pks
             THEN [acc EXCEPT !.ok = FALSE, !.pks = key_map, !.bytes = bytes]
             ELSE KeyLoopOtherDropsOnly(public_keys, i + 1,
                          [ok |-> TRUE, pks |-> key_map,
                           index |-> (pk :> drop_id) @@ acc.index,
                           next_key_id |-> acc.next_key_id + 1,
                           bytes |-> bytes + ReverseEntryBytes],
                          drop_id, num_claims_per_key, actual_allowance)

\* The loop over the submitted keys: each key is written to the drop's key map
\* and to the reverse index; the call panics at the first key the reverse
\* index already holds.  acc = [ok, pks, index, next_key_id, bytes].
RECURSIVE KeyLoop(_, _, _, _, _, _)
KeyLoop(public_keys, i, acc, drop_id, num_claims_per_key, actual_allowance) ==
    IF i > Len(public_keys) \/ ~acc.ok THEN acc
    ELSE LET pk == public_keys[i]
             key_map == (pk :> KeyInfo(num_claims_per_key, actual_allowance,
                                       acc.next_key_id)) @@ acc.pks
             bytes == acc.bytes + (IF pk \in DOMAIN acc.pks THEN 0 ELSE PkEntryBytes)
         IN  IF ~KeyIsFree(acc.index, pk)
             THEN [acc EXCEPT !.ok = FALSE, !.pks = key_map, !.bytes = bytes]
             ELSE KeyLoop(public_keys, i + 1,
                          [ok |-> TRUE, pks |-> key_map,
                           index |-> (pk :> drop_id) @@ acc.index,
                           next_key_id |-> acc.next_key_id + 1,
                           bytes |-> bytes + ReverseEntryBytes],
                          drop_id, num_claims_per_key, actual_allowance)

\* (mutant of AccessKeyMethodNames: the claim-permission config is looked at
\* before the gas override)
AccessKeyMethodNamesConfigFirst(claim_permission, attached_gas) ==
    IF claim_permission = "Claim" THEN ACCESS_KEY_CLAIM_METHOD_NAME
    ELSE IF claim_permission = "CreateAccountAndClaim"
         THEN ACCESS_KEY_CREATE_ACCOUNT_METHOD_NAME
    ELSE IF IsSome(attached_gas) THEN ACCESS_KEY_CLAIM_METHOD_NAME
    ELSE ACCESS_KEY_BOTH_METHOD_NAMES

\* Which methods the access keys may call: the claim-permission config, then
\* the FunctionCall gas override, which forces claim only.
AccessKeyMethodNames(claim_permission, attached_gas) ==
    IF IsSome(attached_gas) THEN ACCESS_KEY_CLAIM_METHOD_NAME
    ELSE IF claim_permission = "Claim" THEN ACCESS_KEY_CLAIM_METHOD_NAME
    ELSE IF claim_permission = "CreateAccountAndClaim"
         THEN ACCESS_KEY_CREATE_ACCOUNT_METHOD_NAME
    ELSE ACCESS_KEY_BOTH_METHOD_NAMES

\* The two require!s on the number of method data of a FunctionCall drop.
FcMethodCountOk(num_claims_per_key, num_method_data) ==
    IF num_claims_per_key = 1 THEN num_method_data = 1
    ELSE IF num_method_data > 1 THEN num_method_data = num_claims_per_key
    ELSE TRUE

\* The attached deposits of a FunctionCall drop, per key, and the number of
\* None method data: [ok, deposit_required_for_fc_deposits, num_none_fcs,
\* exact], exact being the values the u128 operations produce unwrapped.
RECURSIVE FcLoop(_, _, _)
FcLoop(methods, i, acc) ==
    IF i > Len(methods) THEN acc
    ELSE LET method_name == methods[i]
             attached_deposit == SumSeq(method_name.deposits)
         IN  FcLoop(methods, i + 1,
                    [num_none_fcs |-> acc.num_none_fcs + B2N(~method_name.is_some),
                     deposit |-> IF method_name.is_some
                                 THEN acc.deposit + attached_deposit
                                 ELSE acc.deposit])

\* (mutant of FcDeposits: the shared method data is charged for one use)
FcDepositsOneUse(methods, num_claims_per_key) ==
    LET r == FcLoop(methods, 1, [num_none_fcs |-> 0, deposit |-> 0])
    IN  [ok |-> TRUE, num_none_fcs |-> r.num_none_fcs, exact |-> r.deposit,
         deposit_required_for_fc_deposits |-> W128(r.deposit)]

FcDeposits(methods, num_claims_per_key) ==
    LET num_method_data == Len(methods)
    IN  IF num_claims_per_key > 1 /\ num_method_data = 1
        THEN IF ~methods[1].is_some
             THEN Panic("InvalidConfig")  \* expect("cannot have a single none function call")
             ELSE LET attached_deposit == SumSeq(methods[1].deposits)
                  IN  [ok |-> TRUE, num_none_fcs |-> 0,
                       exact |-> num_claims_per_key * attached_deposit,
                       deposit_required_for_fc_deposits |->
                           W128(num_claims_per_key * attached_deposit)]
        ELSE LET r == FcLoop(methods, 1, [num_none_fcs |-> 0, deposit |-> 0])
             IN  [ok |-> TRUE, num_none_fcs |-> r.num_none_fcs, exact |-> r.deposit,
                  deposit_required_for_fc_deposits |-> W128(r.deposit)]

\* The fee schedule of a funder: its own, or the contract's default.
FeesFor(owner_id) ==
    IF owner_id \in DOMAIN fees_per_user THEN fees_per_user[owner_id]
    ELSE <<drop_fee, key_fee>>

\* (mutant of ProvisionKeys: the access keys are given the allowance of one use)
ProvisionKeysOneUse(keys, public_keys, allowance, method_names) ==
    LET pks == {public_keys[i] : i \in 1 .. Len(public_keys)}
    IN  IF pks \cap DOMAIN keys # {} THEN keys
        ELSE [pk \in pks |-> [allowance |-> calculate_base_allowance(ATTACHED_GAS_FROM_WALLET),
                              method_names |-> method_names]]
             @@ keys

\* One batch of add-key actions on the contract account; the batch fails as a
\* whole when one of its keys is an access key already.
ProvisionKeys(keys, public_keys, allowance, method_names) ==
    LET pks == {public_keys[i] : i \in 1 .. Len(public_keys)}
    IN  IF pks \cap DOMAIN keys # {} THEN keys
        ELSE [pk \in pks |-> [allowance |-> allowance, method_names |-> method_names]]
             @@ keys

\* ------------------------------------------------------------ create_drop
\* (mutant of OneCallbackData: the payloads are not counted)
OneCallbackDataUncounted(ft_data, nft_data, fc_data) == TRUE

\* require!(num_cbs_specified <= 1, ...)
OneCallbackData(ft_data, nft_data, fc_data) ==
    B2N(ft_data.is_some) + B2N(nft_data.is_some) + B2N(fc_data.is_some) <= 1

\* (mutant of GasWithinCeiling: the ceiling is the wallet gas itself)
GasWithinWalletGas(gas) == gas <= ATTACHED_GAS_FROM_WALLET

\* require!(deposit_per_use.0 == 0, ...) when fc_data carries attached_gas
NoDepositWithGas(deposit_per_use) == deposit_per_use = 0

\* require!(gas <= ATTACHED_GAS_FROM_WALLET - GAS_OFFSET_IF_FC_EXECUTE, ...)
GasWithinCeiling(gas) == gas <= ATTACHED_GAS_FROM_WALLET - GAS_OFFSET_IF_FC_EXECUTE

\* (mutant of SimpleDepositOk: a Simple drop may hold nothing)
SimpleDepositAny(deposit_per_use) == TRUE

\* require!(deposit_per_use.0 > 0, ...) of a drop with no payload
SimpleDepositOk(deposit_per_use) == deposit_per_use > 0

\* (mutants of CanCover: a strict comparison, and no comparison)
CanCoverStrictly(current_user_balance, required_deposit) ==
    current_user_balance > required_deposit
CanCoverAnything(current_user_balance, required_deposit) == TRUE

\* require!(current_user_balance >= required_deposit, ...)
CanCover(current_user_balance, required_deposit) ==
    current_user_balance >= required_deposit

\* The subtraction num_claims_per_key - num_none_fcs, in u64.
UsesCharged(num_claims_per_key, num_none_fcs) ==
    W64(num_claims_per_key - num_none_fcs)

\* (mutant of CreateRequiredDeposit: the access key storage is not charged)
CreateRequiredDepositNoKeyStorage(fees, total_required_storage, actual_allowance, deposit_per_use, uses_charged, storage_per_longest, deposit_required_for_fc_deposits, len) ==
    fees[1]
    + total_required_storage
    + (fees[2]
       + actual_allowance
       + deposit_per_use * uses_charged
       + storage_per_longest * storage_byte_cost * uses_charged
       + deposit_required_for_fc_deposits)
      * len

\* required_deposit of create_drop, as the u128 operations compute it unwrapped
\* (uses_charged is the u64 difference above, cast to u128).
CreateRequiredDeposit(fees, total_required_storage, actual_allowance, deposit_per_use, uses_charged, storage_per_longest, deposit_required_for_fc_deposits, len) ==
    fees[1]
    + total_required_storage
    + (fees[2]
       + actual_allowance
       + ACCESS_KEY_STORAGE
       + deposit_per_use * uses_charged
       + storage_per_longest * storage_byte_cost * uses_charged
       + deposit_required_for_fc_deposits)
      * len

\* (mutant of NextDropId: the nonce is not incremented)
NextDropIdSame(drop_id) == drop_id

\* self.next_drop_id += 1
NextDropId(drop_id) == drop_id + 1

\* self.fees_collected += fees.0 + fees.1 * len
CreateFees(fees, len) == fees[1] + fees[2] * len

\* (mutant of StorageAfterPop: the longest token id is left in the vector)
StorageAfterNoPop(storage, token_id) == storage

\* data.token_ids.pop() and the insert of the drop: the storage in use once
\* the token id pushed for the measurement is removed again
StorageAfterPop(storage, token_id) == storage - TokenIdBytes(token_id)

\* registered_uses the Drop object is created with
InitialRegisteredUses(num_claims_per_key, len) == num_claims_per_key * len

\* (mutant of AddsKeysNow: the access keys are added for every payload)
AddsKeysAlways(ft_data) == TRUE

\* if ft_data.is_none() { add the access keys } else { query the registry }
AddsKeysNow(ft_data) == ~ft_data.is_some

\* (mutant of StorageCheckPromise: the continuation is not told the amount)
StorageCheckPromiseNoAmount(public_keys, drop_id, required_deposit) ==
    [public_keys |-> public_keys, drop_id |-> drop_id, required_deposit |-> 0]

\* .then(Self::ext(..).resolve_storage_check(public_keys, drop_id, required_deposit))
StorageCheckPromise(public_keys, drop_id, required_deposit) ==
    [public_keys |-> public_keys, drop_id |-> drop_id,
     required_deposit |-> required_deposit]

\* the panic of the balance check; required_deposit is what the call logged
NotEnough(required_deposit) ==
    [ok |-> FALSE, error |-> "InsufficientBalance", required_deposit |-> required_deposit]

\* The whole call: Panic(error), or the state it commits.
CreateDropCall(caller, a) ==
    LET public_keys == a.public_keys
        deposit_per_use == a.deposit_per_use
        config == a.config
        ft_data == a.ft_data
        nft_data == a.nft_data
        fc_data == a.fc_data
        owner_id == caller
        len == Len(public_keys)
        drop_id == next_drop_id
        num_claims_per_key == UnwrapOr(config.uses_per_key, 1)
        current_user_balance == user_balances[owner_id]
        initial_storage == storage_usage
        gas == IF fc_data.is_some THEN fc_data.attached_gas ELSE NoneU
        gas_to_attach == IF IsSome(gas) THEN gas + GAS_OFFSET_IF_FC_EXECUTE
                         ELSE ATTACHED_GAS_FROM_WALLET
        access_key_method_names == AccessKeyMethodNames(config.claim_permission, gas)
        calculated_base_allowance == calculate_base_allowance(gas_to_attach)
        allowance_exact == calculated_base_allowance * num_claims_per_key
        actual_allowance == W128(allowance_exact)
        loop == KeyLoop(public_keys, 1,
                        [ok |-> TRUE, pks |-> EmptyMap, index |-> drop_id_for_pk,
                         next_key_id |-> 0, bytes |-> 0],
                        drop_id, num_claims_per_key, actual_allowance)
        registered_exact == InitialRegisteredUses(num_claims_per_key, len)
        \* the drop object of line 221, before the payload is looked at
        drop0 == [owner_id |-> owner_id, pks |-> loop.pks,
                  deposit_per_use |-> deposit_per_use,
                  registered_uses |-> W64(registered_exact),
                  required_gas |-> gas_to_attach, drop_type |-> DropTypeSimple,
                  config |-> config, metadata |-> a.metadata,
                  next_key_id |-> loop.next_key_id]
        storage_before_drop == initial_storage + loop.bytes + FunderDropBytes
                               + MetadataBytes(a.metadata)
        \* NFT: the drop is stored with no token id, the longest token id is
        \* pushed and measured, then popped again
        nft_empty == DropTypeNFT(nft_data.longest_token_id, U128Max, << >>)
        initial_nft_storage_one == storage_before_drop + DropBytes(nft_empty)
        nft_probe == [nft_empty EXCEPT !.token_ids = Append(@, nft_data.longest_token_id)]
        final_nft_storage_one == initial_nft_storage_one
                                 + TokenIdBytes(nft_data.longest_token_id)
        storage_per_longest == IF nft_data.is_some
                               THEN final_nft_storage_one - initial_nft_storage_one
                               ELSE 0
        nft_final == [nft_probe EXCEPT
                         !.token_ids = SubSeq(@, 1, Len(@) - 1),
                         !.storage_for_longest = storage_per_longest]
        fc == IF fc_data.is_some /\ ~nft_data.is_some /\ ~ft_data.is_some
              THEN FcDeposits(fc_data.methods, num_claims_per_key)
              ELSE [ok |-> TRUE, num_none_fcs |-> 0, exact |-> 0,
                    deposit_required_for_fc_deposits |-> 0]
        drop == IF nft_data.is_some
                THEN [drop0 EXCEPT !.registered_uses = 0, !.drop_type = nft_final]
                ELSE IF ft_data.is_some
                THEN [drop0 EXCEPT !.registered_uses = 0,
                                   !.drop_type = DropTypeFT(ft_data.contract_id,
                                                            ft_data.balance_per_use,
                                                            U128Max)]
                ELSE IF fc_data.is_some
                THEN [drop0 EXCEPT !.drop_type = DropTypeFC(fc_data.methods,
                                                            fc_data.attached_gas)]
                ELSE drop0
        final_storage == (IF nft_data.is_some
                          THEN StorageAfterPop(final_nft_storage_one,
                                               nft_data.longest_token_id)
                          ELSE storage_before_drop + DropBytes(drop.drop_type))
        storage_exact == (final_storage - initial_storage) * storage_byte_cost
        total_required_storage == W128(storage_exact)
        fees == FeesFor(owner_id)
        uses_exact == num_claims_per_key - fc.num_none_fcs
        uses_charged == UsesCharged(num_claims_per_key, fc.num_none_fcs)
        per_key_exact == fees[2] + actual_allowance + ACCESS_KEY_STORAGE
                         + deposit_per_use * uses_charged
                         + storage_per_longest * storage_byte_cost * uses_charged
                         + fc.deposit_required_for_fc_deposits
        required_exact == CreateRequiredDeposit(fees, total_required_storage,
                              actual_allowance, deposit_per_use, uses_charged,
                              storage_per_longest,
                              fc.deposit_required_for_fc_deposits, len)
        required_deposit == W128(required_exact)
        fees_exact == fees_collected + CreateFees(fees, len)
    IN  IF ~OneCallbackData(ft_data, nft_data, fc_data) THEN Panic("InvalidConfig")
        ELSE IF owner_id \notin DOMAIN user_balances THEN Panic("NoUserBalance")
        ELSE IF IsSome(gas) /\ ~NoDepositWithGas(deposit_per_use)
             THEN Panic("InvalidConfig")
        ELSE IF IsSome(gas) /\ ~GasWithinCeiling(gas) THEN Panic("InvalidConfig")
        ELSE IF overflow_checks /\ ~Fits128(allowance_exact)
             THEN Panic("ArithmeticOverflow")
        ELSE IF ~loop.ok THEN Panic("DuplicateKey")
        ELSE IF overflow_checks /\ ~Fits64(registered_exact)
             THEN Panic("ArithmeticOverflow")
        ELSE IF fc_data.is_some
                /\ ~FcMethodCountOk(num_claims_per_key, Len(fc_data.methods))
             THEN Panic("InvalidConfig")
        ELSE IF ~fc.ok THEN fc
        ELSE IF overflow_checks /\ ~Fits128(fc.exact) THEN Panic("ArithmeticOverflow")
        ELSE IF ~nft_data.is_some /\ ~ft_data.is_some /\ ~fc_data.is_some
                /\ ~SimpleDepositOk(deposit_per_use)
             THEN Panic("InvalidConfig")
        ELSE IF overflow_checks
                /\ (~Fits128(storage_exact) \/ ~Fits64(uses_exact)
                    \/ ~Fits128(per_key_exact) \/ ~Fits128(required_exact))
             THEN Panic("ArithmeticOverflow")
        ELSE IF ~CanCover(current_user_balance, required_deposit)
             THEN NotEnough(required_deposit)
        ELSE IF overflow_checks /\ ~Fits128(fees_exact) THEN Panic("ArithmeticOverflow")
        ELSE [ok |-> TRUE, error |-> "", drop_id |-> drop_id, drop |-> drop,
              next_drop_id |-> NextDropId(next_drop_id),
              index |-> loop.index,
              balance |-> current_user_balance - required_deposit,
              fees_collected |-> W128(fees_exact),
              storage_usage |-> final_storage,
              required_deposit |-> required_deposit,
              access_keys |-> IF AddsKeysNow(ft_data)
                              THEN ProvisionKeys(access_keys, public_keys,
                                                 actual_allowance,
                                                 access_key_method_names)
                              ELSE access_keys,
              promises |-> IF ft_data.is_some
                           THEN promises \cup {StorageCheckPromise(public_keys, drop_id,
                                                                   required_deposit)}
                           ELSE promises]

\* --------------------------------------------------------------- add_keys
\* (mutant of IsFunder: anyone may add keys)
IsFunderOrAnyone(funder, caller) == TRUE

\* require!(funder == &env::predecessor_account_id(), ...)
IsFunder(funder, caller) == funder = caller

\* Increment the claims registered if drop is FC or Simple
AddedRegisteredUses(kind, num_claims_per_key, len) ==
    IF kind \in {"FunctionCall", "Simple"} THEN num_claims_per_key * len ELSE 0

\* self.fees_collected += fees.1 * len
AddFees(fees, len) == fees[2] * len

\* required_deposit of add_keys, as the u128 operations compute it unwrapped
AddRequiredDeposit(fees, total_required_storage, actual_allowance, deposit_per_use, uses_charged, nft_optional_costs_per_key, deposit_required_for_fc_deposits, ft_optional_costs_per_claim, num_claims_per_key, len) ==
    total_required_storage
    + (fees[2]
       + actual_allowance
       + ACCESS_KEY_STORAGE
       + deposit_per_use * uses_charged
       + nft_optional_costs_per_key
       + deposit_required_for_fc_deposits
       + ft_optional_costs_per_claim * num_claims_per_key)
      * len

AddKeysCall(caller, public_keys, drop_id) ==
    LET drop == drop_for_id[drop_id]
        config == drop.config
        funder == drop.owner_id
        len == Len(public_keys)
        initial_storage == storage_usage
        num_claims_per_key == UnwrapOr(config.uses_per_key, 1)
        calculated_base_allowance == calculate_base_allowance(drop.required_gas)
        allowance_exact == calculated_base_allowance * num_claims_per_key
        actual_allowance == W128(allowance_exact)
        loop == KeyLoop(public_keys, 1,
                        [ok |-> TRUE, pks |-> drop.pks, index |-> drop_id_for_pk,
                         next_key_id |-> drop.next_key_id, bytes |-> 0],
                        drop_id, num_claims_per_key, actual_allowance)
        kind == drop.drop_type.kind
        access_key_method_names ==
            AccessKeyMethodNames(config.claim_permission,
                                 IF kind = "FunctionCall"
                                 THEN drop.drop_type.attached_gas ELSE NoneU)
        added_exact == AddedRegisteredUses(kind, num_claims_per_key, len)
        registered_exact == drop.registered_uses + W64(added_exact)
        new_drop == [drop EXCEPT !.pks = loop.pks,
                                 !.next_key_id = loop.next_key_id,
                                 !.registered_uses = W64(registered_exact)]
        current_user_balance == user_balances[funder]
        fc == IF kind = "FunctionCall"
              THEN FcDeposits(drop.drop_type.methods, num_claims_per_key)
              ELSE [ok |-> TRUE, num_none_fcs |-> 0, exact |-> 0,
                    deposit_required_for_fc_deposits |-> 0]
        nft_exact == IF kind = "NonFungibleToken"
                     THEN drop.drop_type.storage_for_longest * storage_byte_cost
                     ELSE 0
        nft_optional_costs_per_key == W128(nft_exact)
        ft_optional_costs_per_claim == IF kind = "FungibleToken"
                                       THEN drop.drop_type.ft_storage ELSE 0
        final_storage == initial_storage + loop.bytes
        storage_exact == (final_storage - initial_storage) * storage_byte_cost
        total_required_storage == W128(storage_exact)
        fees == FeesFor(funder)
        uses_exact == num_claims_per_key - fc.num_none_fcs
        uses_charged == UsesCharged(num_claims_per_key, fc.num_none_fcs)
        per_key_exact == fees[2] + actual_allowance + ACCESS_KEY_STORAGE
                         + drop.deposit_per_use * uses_charged
                         + nft_optional_costs_per_key
                         + fc.deposit_required_for_fc_deposits
                         + ft_optional_costs_per_claim * num_claims_per_key
        required_exact == AddRequiredDeposit(fees, total_required_storage,
                              actual_allowance, drop.deposit_per_use, uses_charged,
                              nft_optional_costs_per_key,
                              fc.deposit_required_for_fc_deposits,
                              ft_optional_costs_per_claim, num_claims_per_key, len)
        required_deposit == W128(required_exact)
        fees_exact == fees_collected + AddFees(fees, len)
    IN  IF drop_id \notin DOMAIN drop_for_id THEN Panic("NoDropFound")
        ELSE IF ~IsFunder(funder, caller) THEN Panic("NotOwner")
        ELSE IF overflow_checks /\ ~Fits128(allowance_exact)
             THEN Panic("ArithmeticOverflow")
        ELSE IF ~loop.ok THEN Panic("DuplicateKey")
        ELSE IF overflow_checks /\ (~Fits64(added_exact) \/ ~Fits64(registered_exact))
             THEN Panic("ArithmeticOverflow")
        ELSE IF funder \notin DOMAIN user_balances THEN Panic("NoUserBalance")
        ELSE IF ~fc.ok THEN fc
        ELSE IF overflow_checks
                /\ (~Fits128(fc.exact) \/ ~Fits128(nft_exact) \/ ~Fits128(storage_exact)
                    \/ ~Fits64(uses_exact) \/ ~Fits128(per_key_exact)
                    \/ ~Fits128(required_exact))
             THEN Panic("ArithmeticOverflow")
        ELSE IF ~CanCover(current_user_balance, required_deposit)
             THEN NotEnough(required_deposit)
        ELSE IF overflow_checks /\ ~Fits128(fees_exact) THEN Panic("ArithmeticOverflow")
        ELSE [ok |-> TRUE, error |-> "", drop_id |-> drop_id, drop |-> new_drop,
              index |-> loop.index,
              balance |-> current_user_balance - required_deposit,
              fees_collected |-> W128(fees_exact),
              storage_usage |-> final_storage,
              required_deposit |-> required_deposit,
              access_keys |-> ProvisionKeys(access_keys, public_keys,
                                            actual_allowance, access_key_method_names)]

\* ------------------------------------------------- resolve_storage_check
\* The continuation of a FungibleToken create_drop, on the registry's answer:
\* response.ok is FALSE for an error or a timeout, and response.min is the
\* registration cost per use otherwise.  [funded, balance, drop, access_keys].
ResolveStorageCheckCall(p, response) ==
    LET drop == drop_for_id[p.drop_id]
        funder == drop.owner_id
        num_claims_per_key == UnwrapOr(drop.config.uses_per_key, 1)
        len == Len(p.public_keys)
        shortfall == response.min * num_claims_per_key * len
        actual_allowance ==
            W128(calculate_base_allowance(drop.required_gas) * num_claims_per_key)
        funded == response.ok /\ user_balances[funder] >= shortfall
    IN  IF funded
        THEN [funded |-> TRUE,
              balance |-> user_balances[funder] - shortfall,
              drop |-> [drop EXCEPT !.drop_type.ft_storage = response.min],
              access_keys |-> ProvisionKeys(access_keys, p.public_keys, actual_allowance,
                                  AccessKeyMethodNames(drop.config.claim_permission,
                                                       NoneU))]
        ELSE [funded |-> FALSE,
              balance |-> user_balances[funder] + p.required_deposit,
              drop |-> drop,
              access_keys |-> access_keys]

\* ---------------------------------------------------------------- inputs
Batches == UNION {[1 .. n -> Keys] : n \in 0 .. MaxBatch}

Args(deposit_per_use, uses_per_key, claim_permission, ft_data, nft_data, fc_data) ==
    [public_keys |-> << >>, deposit_per_use |-> deposit_per_use,
     config |-> DropConfig(uses_per_key, claim_permission), metadata |-> NoneU,
     ft_data |-> ft_data, nft_data |-> nft_data, fc_data |-> fc_data]

SimpleInputs ==
    {Args(d, NoneU, "None", NoFT, NoNFT, NoFC) : d \in {0, 1, U128Max}}
    \cup {Args(1, u, "None", NoFT, NoNFT, NoFC) : u \in {2, U64Max}}
    \cup {Args(1, NoneU, "Claim", NoFT, NoNFT, NoFC)}

NftInputs == {Args(0, 2, "None", NoFT, SomeNFT(<<7, 7>>), NoFC)}

FtInputs == {Args(1, NoneU, "None", SomeFT("ft", 1), NoNFT, NoFC),
             Args(0, 0, "None", SomeFT("ft", 1), NoNFT, NoFC)}

MethodLists ==
    {<< >>, <<NoMethod>>, <<SomeMethod(<<3>>)>>, <<SomeMethod(<<1, 2>>), NoMethod>>}

FcInputs ==
    {Args(1, u, "None", NoFT, NoNFT, SomeFC(m, NoneU)) :
        u \in {NoneU, 0, 2}, m \in MethodLists}
    \cup {Args(d, NoneU, "CreateAccountAndClaim", NoFT, NoNFT,
               SomeFC(<<SomeMethod(<<3>>)>>, g)) : d \in {0, 1}, g \in {2, 4}}

MultiInputs ==
    {Args(1, NoneU, "None", SomeFT("ft", 1), SomeNFT(<<7>>), NoFC)}

CreateDropInputs == SimpleInputs \cup NftInputs \cup FtInputs \cup FcInputs \cup MultiInputs

\* what the registry answers: an error or a timeout, or its storage-cost bound
Responses ==
    {[ok |-> FALSE, min |-> 0]} \cup {[ok |-> TRUE, min |-> c] : c \in {1, 12000}}

\* ------------------------------------------------------- initial state
InitialBalances == [alice |-> 10000, bob |-> 77]
InitialFees == [alice |-> <<20, 5>>]

Init ==
    /\ overflow_checks \in BOOLEAN
    /\ next_drop_id = 0
    /\ drop_for_id = EmptyMap
    /\ drop_id_for_pk = EmptyMap
    /\ drop_ids_for_funder = EmptyMap
    /\ user_balances = InitialBalances
    /\ fees_per_user = InitialFees
    /\ drop_fee = 50
    /\ key_fee = 10
    /\ fees_collected = 0
    /\ storage_usage = 0
    /\ access_keys = EmptyMap
    /\ promises = {}
    /\ ft_status = EmptyMap

\* --------------------------------------------------------------- actions
\* internal_add_drop_to_funder
AddDropToFunder(funders, account_id, drop_id) ==
    (account_id :> ((IF account_id \in DOMAIN funders THEN funders[account_id] ELSE {})
                    \cup {drop_id})) @@ funders

CreateDrop(caller, a) ==
    /\ next_drop_id < MaxDrops
    /\ LET r == CreateDropCall(caller, a)
       IN  IF r.ok
           THEN /\ next_drop_id' = r.next_drop_id
                /\ drop_for_id' = (r.drop_id :> r.drop) @@ drop_for_id
                /\ drop_id_for_pk' = r.index
                /\ drop_ids_for_funder' = AddDropToFunder(drop_ids_for_funder, caller,
                                                          r.drop_id)
                /\ user_balances' = [user_balances EXCEPT ![caller] = r.balance]
                /\ fees_collected' = r.fees_collected
                /\ storage_usage' = r.storage_usage
                /\ access_keys' = r.access_keys
                /\ promises' = r.promises
                /\ ft_status' = IF r.drop.drop_type.kind = "FungibleToken"
                                THEN (r.drop_id :> "Pending") @@ ft_status
                                ELSE ft_status
                /\ UNCHANGED <<overflow_checks, fees_per_user, drop_fee, key_fee>>
           ELSE UNCHANGED vars

AddKeys(caller, public_keys, drop_id) ==
    LET r == AddKeysCall(caller, public_keys, drop_id)
    IN  IF r.ok
        THEN /\ drop_for_id' = [drop_for_id EXCEPT ![drop_id] = r.drop]
             /\ drop_id_for_pk' = r.index
             /\ user_balances' = [user_balances EXCEPT ![caller] = r.balance]
             /\ fees_collected' = r.fees_collected
             /\ storage_usage' = r.storage_usage
             /\ access_keys' = r.access_keys
             /\ UNCHANGED <<overflow_checks, next_drop_id, drop_ids_for_funder,
                            fees_per_user, drop_fee, key_fee, promises, ft_status>>
        ELSE UNCHANGED vars

ResolveStorageCheck(p, response) ==
    /\ p \in promises
    /\ LET r == ResolveStorageCheckCall(p, response)
           funder == drop_for_id[p.drop_id].owner_id
       IN  /\ promises' = promises \ {p}
           /\ user_balances' = [user_balances EXCEPT ![funder] = r.balance]
           /\ drop_for_id' = [drop_for_id EXCEPT ![p.drop_id] = r.drop]
           /\ access_keys' = r.access_keys
           /\ ft_status' = [ft_status EXCEPT
                               ![p.drop_id] = IF r.funded THEN "Funded" ELSE "Failed"]
           /\ UNCHANGED <<overflow_checks, next_drop_id, drop_id_for_pk,
                          drop_ids_for_funder, fees_per_user, drop_fee, key_fee,
                          fees_collected, storage_usage>>

Next ==
    \/ \E caller \in Accounts, a \in CreateDropInputs, public_keys \in Batches :
           CreateDrop(caller, [a EXCEPT !.public_keys = public_keys])
    \/ \E caller \in Accounts, public_keys \in Batches, drop_id \in 0 .. MaxDrops :
           AddKeys(caller, public_keys, drop_id)
    \/ \E p \in promises, response \in Responses :
           ResolveStorageCheck(p, response)

Spec == Init /\ [][Next]_vars

\* the contract built with overflow-checks, and built without
InitChecked == Init /\ overflow_checks = TRUE
InitWrapping == Init /\ overflow_checks = FALSE
SpecChecked == InitChecked /\ [][Next]_vars
SpecWrapping == InitWrapping /\ [][Next]_vars

\* ======================================================================
\* Properties.  A call that panics leaves no trace, so a committed call is
\* read off the step it makes: create_drop is the only step that advances
\* next_drop_id, add_keys the only one that grows a stored drop's key map,
\* resolve_storage_check the only one that consumes a promise.
\* ======================================================================
CreateStep == next_drop_id' = next_drop_id + 1
NewDrop == drop_for_id'[next_drop_id]
AddStep(d) ==
    /\ d \in DOMAIN drop_for_id
    /\ DOMAIN drop_for_id'[d].pks # DOMAIN drop_for_id[d].pks
ResolveStep(p) == p \in promises /\ p \notin promises'

UsesPerKey(drop) == UnwrapOr(drop.config.uses_per_key, 1)
KeyCount(drop) == Cardinality(DOMAIN drop.pks)
NoneCount(drop) ==
    Cardinality({i \in 1 .. Len(drop.drop_type.methods) : ~drop.drop_type.methods[i].is_some})
\* the keys of a drop in the order of their sequence ids
KeysFrom(drop, first) ==
    [i \in 1 .. (drop.next_key_id - first) |->
        CHOOSE k \in DOMAIN drop.pks : drop.pks[k].key_id = first + i - 1]

\* totalFunctionCallAttachedDeposits of section 4.2, per key
SpecFcTotal(drop) ==
    LET methods == drop.drop_type.methods
    IN  IF Len(methods) = 1 /\ UsesPerKey(drop) > 1
        THEN UsesPerKey(drop) * SumSeq(methods[1].deposits)
        ELSE SumSeq([i \in 1 .. Len(methods) |->
                        IF methods[i].is_some THEN SumSeq(methods[i].deposits) ELSE 0])

\* requiredDeposit of section 4.2 (creation case), over the integers
SpecRequiredCreate(drop, n, storage_delta) ==
    LET schedule == IF drop.owner_id \in DOMAIN fees_per_user
                    THEN fees_per_user[drop.owner_id] ELSE <<drop_fee, key_fee>>
        uses == UsesPerKey(drop)
        charged == uses - NoneCount(drop)
    IN  schedule[1]
        + storage_delta * storage_byte_cost
        + n * (schedule[2]
               + calculate_base_allowance(drop.required_gas) * uses
               + ACCESS_KEY_STORAGE
               + drop.deposit_per_use * charged
               + (IF drop.drop_type.kind = "NonFungibleToken"
                  THEN drop.drop_type.storage_for_longest * storage_byte_cost * charged
                  ELSE 0)
               + (IF drop.drop_type.kind = "FunctionCall" THEN SpecFcTotal(drop) ELSE 0))

\* C1: every committed create_drop debits its funder exactly requiredDeposit of
\* section 4.2 (drop fee, priced storage delta, and per key the key fee, the
\* allowance, the key registration cost, the per-use deposit for the charged
\* uses, the NFT storage surcharge and the FunctionCall deposits), with the
\* funder's own fee schedule when it has one, and changes no other balance.
C1_DebitIsRequiredDeposit ==
    [][CreateStep =>
        LET drop == NewDrop
            owner == drop.owner_id
        IN  /\ user_balances'[owner]
                 = user_balances[owner]
                   - SpecRequiredCreate(drop, KeyCount(drop),
                                        storage_usage' - storage_usage)
            /\ \A f \in DOMAIN user_balances \ {owner} :
                   user_balances'[f] = user_balances[f]]_vars

KeySet(public_keys) == {public_keys[i] : i \in 1 .. Len(public_keys)}
HasOwnedKey(public_keys) == KeySet(public_keys) \cap DOMAIN drop_id_for_pk # {}
WithKeys(a, public_keys) == [a EXCEPT !.public_keys = public_keys]
PlainSimple == Args(1, NoneU, "None", NoFT, NoNFT, NoFC)

\* C2: every key of every drop's key map is mapped to that drop by the reverse
\* index, so no key is in the key maps of two drops, and an entry of the
\* reverse index, once set, is never removed or changed.
C2_KeyInExactlyOneDrop ==
    [][/\ \A d \in DOMAIN drop_for_id' : \A k \in DOMAIN drop_for_id'[d].pks :
              k \in DOMAIN drop_id_for_pk' /\ drop_id_for_pk'[k] = d
       /\ \A d1, d2 \in DOMAIN drop_for_id' :
              d1 # d2 => DOMAIN drop_for_id'[d1].pks \cap DOMAIN drop_for_id'[d2].pks = {}
       /\ \A k \in DOMAIN drop_id_for_pk :
              k \in DOMAIN drop_id_for_pk' /\ drop_id_for_pk'[k] = drop_id_for_pk[k]]_vars

\* two drops hold keys, after calls that were rejected for a key already owned
C2_Witness ==
    /\ \E d1, d2 \in DOMAIN drop_for_id :
           d1 # d2 /\ KeyCount(drop_for_id[d1]) > 0 /\ KeyCount(drop_for_id[d2]) > 0
    /\ DOMAIN drop_id_for_pk = Keys

\* C3: a batch holding a key the reverse index already maps is rejected as a
\* whole by create_drop and by add_keys, wherever the key stands in the batch:
\* the call panics at the key (or before the keys are looked at) and, being
\* reverted, admits none of its keys and changes nothing.
C3_DuplicateRejectsBatch ==
    \A caller \in Accounts, public_keys \in Batches :
        HasOwnedKey(public_keys) =>
            /\ \A a \in CreateDropInputs :
                   LET r == CreateDropCall(caller, WithKeys(a, public_keys))
                   IN  /\ ~r.ok
                       /\ r.error \in {"DuplicateKey", "InvalidConfig", "NoUserBalance",
                                       "ArithmeticOverflow"}
            /\ \A drop_id \in 0 .. MaxDrops :
                   LET r == AddKeysCall(caller, public_keys, drop_id)
                   IN  /\ ~r.ok
                       /\ r.error \in {"DuplicateKey", "NoDropFound", "NotOwner",
                                       "ArithmeticOverflow"}

\* a batch whose second key is owned and whose first is not is rejected with
\* DuplicateKey by both calls, the funder being able to pay
C3_Witness ==
    \E public_keys \in Batches, d \in DOMAIN drop_for_id :
        /\ Len(public_keys) = 2
        /\ public_keys[1] \notin DOMAIN drop_id_for_pk
        /\ public_keys[2] \in DOMAIN drop_id_for_pk
        /\ drop_for_id[d].owner_id = "alice"
        /\ AddKeysCall("alice", public_keys, d).error = "DuplicateKey"
        /\ CreateDropCall("alice", WithKeys(PlainSimple, public_keys)).error
               = "DuplicateKey"

\* C4: a committed FungibleToken create_drop adds no access key, stores the
\* drop with registered_uses = 0 and leaves exactly one new continuation,
\* carrying the submitted keys, the drop id and the amount just debited; any
\* other committed create_drop adds exactly one access key per submitted key
\* and leaves no continuation.
C4_FtPhaseOneAddsNoKey ==
    [][CreateStep =>
        LET drop == NewDrop
            owner == drop.owner_id
        IN  IF drop.drop_type.kind = "FungibleToken"
            THEN /\ access_keys' = access_keys
                 /\ drop.registered_uses = 0
                 /\ promises \subseteq promises'
                 /\ promises' \ promises
                      = {[public_keys |-> KeysFrom(drop, 0), drop_id |-> next_drop_id,
                          required_deposit |->
                              user_balances[owner] - user_balances'[owner]]}
            ELSE /\ promises' = promises
                 /\ DOMAIN access_keys \cap DOMAIN drop.pks = {}
                 /\ DOMAIN access_keys' = DOMAIN access_keys \cup DOMAIN drop.pks]_vars

\* a pending FungibleToken drop with a key and no access key for it, beside
\* another drop whose key has its access key
C4_Witness ==
    /\ \E p \in promises :
           /\ Len(p.public_keys) > 0 /\ p.required_deposit > 0
           /\ KeySet(p.public_keys) \cap DOMAIN access_keys = {}
    /\ \E d \in DOMAIN drop_for_id :
           /\ drop_for_id[d].drop_type.kind # "FungibleToken"
           /\ DOMAIN drop_for_id[d].pks # {}
           /\ DOMAIN drop_for_id[d].pks \subseteq DOMAIN access_keys

\* C5: when the continuation of a FungibleToken drop fails (the registry call
\* fails or times out, or the funder cannot cover the shortfall), the funder
\* gets back exactly what create_drop debited, no other balance changes, the
\* drop is left unusable, and no access key exists for any of the drop's keys.
C5_FailureRestoresBalance ==
    [][\A p \in promises :
          (ResolveStep(p) /\ ft_status'[p.drop_id] = "Failed") =>
              LET drop == drop_for_id'[p.drop_id]
                  owner == drop.owner_id
              IN  /\ user_balances'[owner] = user_balances[owner] + p.required_deposit
                  /\ \A f \in DOMAIN user_balances \ {owner} :
                         user_balances'[f] = user_balances[f]
                  /\ DOMAIN drop.pks \cap DOMAIN access_keys' = {}]_vars

\* C6: the continuation is the only step that takes a FungibleToken drop out
\* of Pending, it runs on a pending drop only and consumes its promise, so at
\* most once per create_drop; the keys captured by a promise in flight have no
\* access key, and a continuation that funds the drop adds exactly one access
\* key per captured key, each with allowance base allowance * uses per key.
C6_ContinuationRunsOnce ==
    [][/\ \A d \in DOMAIN ft_status :
              ft_status'[d] # ft_status[d] =>
                  /\ ft_status[d] = "Pending"
                  /\ \E p \in promises : p.drop_id = d /\ ResolveStep(p)
       /\ \A p \in promises' : KeySet(p.public_keys) \cap DOMAIN access_keys' = {}
       /\ \A p \in promises :
              ResolveStep(p) =>
                  /\ ft_status[p.drop_id] = "Pending"
                  /\ ft_status'[p.drop_id] # "Pending"
                  /\ \A q \in promises' : q.drop_id # p.drop_id
                  /\ KeySet(p.public_keys) \cap DOMAIN access_keys = {}
                  /\ ft_status'[p.drop_id] = "Funded" =>
                         LET drop == drop_for_id'[p.drop_id]
                         IN  /\ DOMAIN access_keys' \ DOMAIN access_keys
                                  = KeySet(p.public_keys)
                             /\ Cardinality(KeySet(p.public_keys)) = Len(p.public_keys)
                             /\ \A k \in KeySet(p.public_keys) :
                                    access_keys'[k].allowance
                                      = calculate_base_allowance(drop.required_gas)
                                        * UsesPerKey(drop)]_vars

\* a funded FungibleToken drop whose captured key has its access key
C6_Witness ==
    \E d \in DOMAIN ft_status :
        /\ ft_status[d] = "Funded"
        /\ \E k \in DOMAIN drop_for_id[d].pks :
               /\ k \in DOMAIN access_keys
               /\ access_keys[k].allowance > 0

\* C7: create_drop and add_keys reject with InsufficientBalance exactly when
\* the funder's balance is strictly below the required deposit they computed:
\* a call that reaches the comparison is accepted when the balance equals or
\* exceeds the required deposit and rejected, changing nothing, otherwise.
C7_InsufficientBalanceIffBelow ==
    \A caller \in DOMAIN user_balances, public_keys \in Batches :
        /\ \A a \in CreateDropInputs :
               LET r == CreateDropCall(caller, WithKeys(a, public_keys))
               IN  /\ r.ok => user_balances[caller] >= r.required_deposit
                   /\ (~r.ok /\ r.error = "InsufficientBalance")
                          => user_balances[caller] < r.required_deposit
        /\ \A drop_id \in DOMAIN drop_for_id :
               LET r == AddKeysCall(caller, public_keys, drop_id)
               IN  /\ r.ok => user_balances[caller] >= r.required_deposit
                   /\ (~r.ok /\ r.error = "InsufficientBalance")
                          => user_balances[caller] < r.required_deposit

\* a funder whose last accepted call required exactly the balance, which is
\* now zero, and whose next call for a key is rejected for the balance
C7_Witness ==
    \E d \in DOMAIN drop_for_id, public_keys \in Batches :
        LET owner == drop_for_id[d].owner_id
        IN  /\ user_balances[owner] = 0
            /\ InitialBalances[owner] > 0
            /\ KeyCount(drop_for_id[d]) > 0
            /\ AddKeysCall(owner, public_keys, d).error = "InsufficientBalance"
            /\ CreateDropCall(owner, WithKeys(PlainSimple, public_keys)).error
                   = "InsufficientBalance"

\* C8: no balance is ever negative, and a committed create_drop or add_keys
\* changes no balance but the drop owner's (the caller's), which it does not
\* increase.
C8_BalancesNeverNegative ==
    [][/\ DOMAIN user_balances' = DOMAIN user_balances
       /\ \A f \in DOMAIN user_balances' : user_balances'[f] >= 0
       /\ CreateStep =>
              /\ user_balances'[NewDrop.owner_id] <= user_balances[NewDrop.owner_id]
              /\ \A f \in DOMAIN user_balances \ {NewDrop.owner_id} :
                     user_balances'[f] = user_balances[f]
       /\ \A d \in DOMAIN drop_for_id :
              AddStep(d) =>
                  /\ user_balances'[drop_for_id[d].owner_id]
                         <= user_balances[drop_for_id[d].owner_id]
                  /\ \A f \in DOMAIN user_balances \ {drop_for_id[d].owner_id} :
                         user_balances'[f] = user_balances[f]]_vars

\* a funder who paid for a drop and its keys and can no longer pay for another
C8_Witness ==
    \E d \in DOMAIN drop_for_id :
        LET owner == drop_for_id[d].owner_id
        IN  /\ KeyCount(drop_for_id[d]) > 0
            /\ user_balances[owner] < InitialBalances[owner]
            /\ user_balances[owner] >= 0
            /\ \E public_keys \in Batches :
                   AddKeysCall(owner, public_keys, d).error = "InsufficientBalance"

\* C9: add_keys fails, and being reverted changes nothing, when the drop id
\* names no drop (NoDropFound) or the caller is not the drop's owner
\* (NotOwner), whatever the keys; every drop is listed under its owner and
\* under no other funder.
C9_OnlyOwnerAddsKeys ==
    /\ \A caller \in Accounts, public_keys \in Batches, drop_id \in 0 .. MaxDrops :
           LET r == AddKeysCall(caller, public_keys, drop_id)
           IN  /\ drop_id \notin DOMAIN drop_for_id
                      => ~r.ok /\ r.error = "NoDropFound"
               /\ (drop_id \in DOMAIN drop_for_id
                     /\ drop_for_id[drop_id].owner_id # caller)
                      => ~r.ok /\ r.error = "NotOwner"
    /\ \A d \in DOMAIN drop_for_id, f \in Accounts :
           (f \in DOMAIN drop_ids_for_funder /\ d \in drop_ids_for_funder[f])
               <=> f = drop_for_id[d].owner_id

\* the owner has added a key to a drop that another funder, who could pay for
\* it, may not add keys to
C9_Witness ==
    \E d \in DOMAIN drop_for_id, public_keys \in Batches :
        /\ drop_for_id[d].owner_id = "bob"
        /\ drop_for_id[d].next_key_id > 0
        /\ public_keys # << >>
        /\ ~HasOwnedKey(public_keys)
        /\ AddKeysCall("alice", public_keys, d).error = "NotOwner"
        /\ AddKeysCall("alice", public_keys, MaxDrops).error = "NoDropFound"

\* C10: a committed create_drop stores registered_uses = uses per key * number
\* of keys for a Simple or FunctionCall drop, and 0 for a NonFungibleToken or
\* FungibleToken drop.
C10_InitialRegisteredUses ==
    [][CreateStep =>
        LET drop == NewDrop
        IN  drop.registered_uses
              = IF drop.drop_type.kind \in {"Simple", "FunctionCall"}
                THEN UsesPerKey(drop) * KeyCount(drop)
                ELSE 0]_vars

\* C11: a committed add_keys increases the drop's registered_uses by exactly
\* uses per key * number of new keys when the drop is Simple or FunctionCall
\* and leaves it unchanged when the drop is NonFungibleToken or FungibleToken
\* (with C10 for the creation, registered_uses of a Simple or FunctionCall drop
\* is then uses per key * number of keys of its key map).
C11_AddKeysRegisteredUses ==
    [][\A d \in DOMAIN drop_for_id :
          AddStep(d) =>
              LET old == drop_for_id[d]
                  new == drop_for_id'[d]
                  added == KeyCount(new) - KeyCount(old)
              IN  new.registered_uses
                    = old.registered_uses
                      + (IF old.drop_type.kind \in {"Simple", "FunctionCall"}
                         THEN UsesPerKey(old) * added ELSE 0)]_vars

\* requiredDeposit of section 4.2 (extension case), over the integers: the
\* creation formula without the drop fee, plus the FungibleToken registration
\* cost per use
SpecRequiredAdd(drop, n, storage_delta) ==
    LET schedule == IF drop.owner_id \in DOMAIN fees_per_user
                    THEN fees_per_user[drop.owner_id] ELSE <<drop_fee, key_fee>>
    IN  SpecRequiredCreate(drop, n, storage_delta) - schedule[1]
        + n * (IF drop.drop_type.kind = "FungibleToken"
               THEN drop.drop_type.ft_storage * UsesPerKey(drop) ELSE 0)

\* C12: every committed add_keys debits the drop's funder exactly the creation
\* formula without the drop fee, evaluated on the stored drop: the priced
\* storage delta and, per new key, the key fee, the allowance, the key
\* registration cost, the per-use deposit and the NFT storage surcharge for
\* the charged uses, the FunctionCall deposits and the FT registration cost
\* for every use.
C12_AddKeysDebit ==
    [][\A d \in DOMAIN drop_for_id :
          AddStep(d) =>
              LET old == drop_for_id[d]
                  owner == old.owner_id
                  added == KeyCount(drop_for_id'[d]) - KeyCount(old)
              IN  user_balances'[owner]
                    = user_balances[owner]
                      - SpecRequiredAdd(old, added, storage_usage' - storage_usage)]_vars

\* create_drop arguments that set more than one payload
MultiPayloadInputs ==
    {a \in {Args(d, u, "None", ft, nft, fc) :
                d \in {0, 1}, u \in {NoneU, 2},
                ft \in {NoFT, SomeFT("ft", 1)}, nft \in {NoNFT, SomeNFT(<<7>>)},
                fc \in {NoFC, SomeFC(<<SomeMethod(<<3>>)>>, NoneU)}} :
        B2N(a.ft_data.is_some) + B2N(a.nft_data.is_some) + B2N(a.fc_data.is_some) > 1}

\* the payload fields of a stored drop that its variant does not use are unset
OnePayloadVariant(drop) ==
    LET t == drop.drop_type
    IN  /\ t.kind \in {"Simple", "NonFungibleToken", "FungibleToken", "FunctionCall"}
        /\ t.kind # "NonFungibleToken" => t.longest_token_id = << >> /\ t.token_ids = << >>
        /\ t.kind # "FungibleToken" => t.contract_id = "" /\ t.ft_storage = 0
        /\ t.kind # "FunctionCall" => t.methods = << >> /\ t.attached_gas = NoneU

\* C13: a create_drop that sets more than one of ft_data, nft_data and fc_data
\* panics with InvalidConfig at its first check, and being reverted stores no
\* drop, registers no key, debits nothing and consumes no drop id; every
\* stored drop has exactly one payload variant; every key of a drop that is
\* not FungibleToken has its access key, and the keys a pending FungibleToken
\* drop was created with have none.
C13_OnePayloadOnly ==
    /\ \A caller \in Accounts, public_keys \in Batches, a \in MultiPayloadInputs :
           CreateDropCall(caller, WithKeys(a, public_keys)) = Panic("InvalidConfig")
    /\ \A d \in DOMAIN drop_for_id :
           /\ OnePayloadVariant(drop_for_id[d])
           /\ drop_for_id[d].drop_type.kind # "FungibleToken"
                  => DOMAIN drop_for_id[d].pks \subseteq DOMAIN access_keys
    /\ \A p \in promises :
           /\ drop_for_id[p.drop_id].drop_type.kind = "FungibleToken"
           /\ KeySet(p.public_keys) \cap DOMAIN access_keys = {}

\* drops of two variants, one of them FungibleToken, each with a key: the
\* FungibleToken drop's key has no access key, the other's has
C13_Witness ==
    \E d1, d2 \in DOMAIN drop_for_id :
        /\ drop_for_id[d1].drop_type.kind = "FungibleToken"
        /\ ft_status[d1] = "Pending"
        /\ DOMAIN drop_for_id[d1].pks # {}
        /\ DOMAIN drop_for_id[d1].pks \cap DOMAIN access_keys = {}
        /\ drop_for_id[d2].drop_type.kind = "NonFungibleToken"
        /\ DOMAIN drop_for_id[d2].pks # {}
        /\ DOMAIN drop_for_id[d2].pks \subseteq DOMAIN access_keys
        /\ \A a \in MultiPayloadInputs :
               CreateDropCall(drop_for_id[d1].owner_id, a).error = "InvalidConfig"

\* C14: a FunctionCall create_drop commits only if its list of method data
\* has exactly one entry or exactly uses per key entries; with any other
\* count, an empty list for more than one use included, it is rejected and
\* stores no drop.
C14_FcMethodCount ==
    [][(CreateStep /\ NewDrop.drop_type.kind = "FunctionCall") =>
           \/ Len(NewDrop.drop_type.methods) = 1
           \/ Len(NewDrop.drop_type.methods) = UsesPerKey(NewDrop)]_vars

\* create_drop arguments with no payload and a zero deposit per use
ZeroSimpleInputs ==
    {Args(0, u, c, NoFT, NoNFT, NoFC) :
        u \in {NoneU, 0, 2}, c \in {"None", "Claim", "CreateAccountAndClaim"}}

\* C15: a create_drop with no payload and deposit_per_use = 0 is rejected, by
\* the require! on the deposit (InvalidConfig) when the caller has a balance
\* and the keys are new, and being reverted changes nothing; every stored
\* Simple drop has deposit_per_use > 0.
C15_SimpleNeedsDeposit ==
    /\ \A caller \in Accounts, public_keys \in Batches, a \in ZeroSimpleInputs :
           LET error == CreateDropCall(caller, WithKeys(a, public_keys)).error
           IN  /\ error \in {"InvalidConfig", "NoUserBalance", "DuplicateKey"}
               /\ (caller \in DOMAIN user_balances
                     /\ ~HasOwnedKey(public_keys)
                     /\ Cardinality(KeySet(public_keys)) = Len(public_keys))
                      => error = "InvalidConfig"
    /\ \A d \in DOMAIN drop_for_id :
           drop_for_id[d].drop_type.kind = "Simple" => drop_for_id[d].deposit_per_use > 0

\* a Simple drop with a deposit and a key beside a payload drop with a zero
\* deposit, the owner's zero-deposit Simple create_drop being rejected
C15_Witness ==
    \E d1, d2 \in DOMAIN drop_for_id :
        /\ drop_for_id[d1].drop_type.kind = "Simple"
        /\ drop_for_id[d1].deposit_per_use > 0
        /\ DOMAIN drop_for_id[d1].pks # {}
        /\ drop_for_id[d2].drop_type.kind \in {"NonFungibleToken", "FungibleToken",
                                               "FunctionCall"}
        /\ drop_for_id[d2].deposit_per_use = 0
        /\ \A a \in ZeroSimpleInputs :
               CreateDropCall(drop_for_id[d1].owner_id, a).error = "InvalidConfig"

\* create_drop arguments whose FunctionCall payload overrides the gas
GasInputs ==
    {Args(d, NoneU, "None", NoFT, NoNFT, SomeFC(<<SomeMethod(<<3>>)>>, g)) :
        d \in {0, 1}, g \in 0 .. (ATTACHED_GAS_FROM_WALLET + 1)}

\* C16: a create_drop whose FunctionCall payload overrides the gas is rejected
\* with InvalidConfig when deposit_per_use is not zero or the override exceeds
\* the ceiling (wallet gas minus the execute offset); a stored drop with an
\* override has deposit_per_use = 0, an override within the ceiling and
\* required_gas = override + offset, at most the wallet gas; a stored drop
\* without an override has required_gas = the wallet gas.
C16_GasOverride ==
    /\ \A caller \in DOMAIN user_balances, public_keys \in Batches, a \in GasInputs :
           (a.deposit_per_use # 0
              \/ a.fc_data.attached_gas
                   > ATTACHED_GAS_FROM_WALLET - GAS_OFFSET_IF_FC_EXECUTE)
               => CreateDropCall(caller, WithKeys(a, public_keys)) = Panic("InvalidConfig")
    /\ \A d \in DOMAIN drop_for_id :
           LET drop == drop_for_id[d]
               gas == drop.drop_type.attached_gas
           IN  IF drop.drop_type.kind = "FunctionCall" /\ IsSome(gas)
               THEN /\ drop.deposit_per_use = 0
                    /\ gas <= ATTACHED_GAS_FROM_WALLET - GAS_OFFSET_IF_FC_EXECUTE
                    /\ drop.required_gas = gas + GAS_OFFSET_IF_FC_EXECUTE
                    /\ drop.required_gas <= ATTACHED_GAS_FROM_WALLET
               ELSE drop.required_gas = ATTACHED_GAS_FROM_WALLET

\* a stored drop with an override at the ceiling or below, beside a drop
\* without one, the owner's override above the ceiling being rejected
C16_Witness ==
    \E d1, d2 \in DOMAIN drop_for_id :
        /\ IsSome(drop_for_id[d1].drop_type.attached_gas)
        /\ drop_for_id[d1].required_gas
               = drop_for_id[d1].drop_type.attached_gas + GAS_OFFSET_IF_FC_EXECUTE
        /\ DOMAIN drop_for_id[d1].pks # {}
        /\ ~IsSome(drop_for_id[d2].drop_type.attached_gas)
        /\ \E a \in GasInputs :
               /\ a.deposit_per_use = 0
               /\ CreateDropCall(drop_for_id[d1].owner_id, a).error = "InvalidConfig"

\* ----------------------------------------------------------------------
\* The worked example of the specification: one funder with a balance of 10_000 and
\* the default fee schedule (drop fee 50, key fee 10), Simple drops of 100 per
\* use, batches of up to three keys.
ExampleKeys == {201, 202, 203}
ExampleBatches == UNION {[1 .. n -> ExampleKeys] : n \in 0 .. 3}
ExampleInputs == {Args(100, u, "None", NoFT, NoNFT, NoFC) : u \in {NoneU, 1}}

InitExample ==
    /\ overflow_checks \in BOOLEAN
    /\ next_drop_id = 0
    /\ drop_for_id = EmptyMap
    /\ drop_id_for_pk = EmptyMap
    /\ drop_ids_for_funder = EmptyMap
    /\ user_balances = [carol |-> 10000]
    /\ fees_per_user = EmptyMap
    /\ drop_fee = 50
    /\ key_fee = 10
    /\ fees_collected = 0
    /\ storage_usage = 0
    /\ access_keys = EmptyMap
    /\ promises = {}
    /\ ft_status = EmptyMap

NextExample ==
    \/ \E public_keys \in ExampleBatches, a \in ExampleInputs :
           CreateDrop("carol", WithKeys(a, public_keys))
    \/ \E public_keys \in ExampleBatches, drop_id \in 0 .. MaxDrops :
           AddKeys("carol", public_keys, drop_id)

SpecExample == InitExample /\ [][NextExample]_vars

\* the create_drop of the example: a funder holding 10_000 stores a Simple
\* drop of 100 per use, one use per key, with three keys, a storage delta
\* priced at 20 and an allowance of 5 per key
ExampleStep ==
    /\ CreateStep
    /\ NewDrop.drop_type.kind = "Simple"
    /\ NewDrop.deposit_per_use = 100
    /\ UsesPerKey(NewDrop) = 1
    /\ KeyCount(NewDrop) = 3
    /\ user_balances[NewDrop.owner_id] = 10000
    /\ FeesFor(NewDrop.owner_id) = <<50, 10>>
    /\ (storage_usage' - storage_usage) * storage_byte_cost = 20
    /\ \A k \in DOMAIN NewDrop.pks : NewDrop.pks[k].allowance = 5

\* C17 (as amended): the create_drop of the worked example charges
\* 50 + 20 + 3 * (10 + 5 + access key storage + 100), which is 415 plus three
\* times the access key storage, leaves the funder 10_000 less that, and
\* stores the drop with registered_uses = 3.
C17_WorkedExampleWithKeyStorage ==
    [][ExampleStep =>
           /\ user_balances'[NewDrop.owner_id]
                = 10000 - (415 + 3 * ACCESS_KEY_STORAGE)
           /\ NewDrop.registered_uses = 3]_vars

\* the funder of the example after its create_drop
C17_Witness ==
    \E d \in DOMAIN drop_for_id :
        /\ drop_for_id[d].drop_type.kind = "Simple"
        /\ drop_for_id[d].deposit_per_use = 100
        /\ KeyCount(drop_for_id[d]) = 3
        /\ drop_for_id[d].registered_uses = 3
        /\ next_drop_id = 1
        /\ user_balances["carol"] = 10000 - (415 + 3 * ACCESS_KEY_STORAGE)

\* C17 (as stated): the create_drop of the worked example charges
\* 50 + 20 + 3 * (10 + 5 + 100) = 415, leaves the funder 9_585, and stores the
\* drop with registered_uses = 3.
C17_WorkedExample ==
    [][ExampleStep =>
           /\ user_balances'[NewDrop.owner_id] = 9585
           /\ NewDrop.registered_uses = 3]_vars

\* the part of a required deposit that the FunctionCall deposits account for
FcShareOfCreate(deposit_required_for_fc_deposits, len) ==
    CreateRequiredDeposit(<<0, 0>>, 0, 0, 0, 0, 0, deposit_required_for_fc_deposits, len)
    - CreateRequiredDeposit(<<0, 0>>, 0, 0, 0, 0, 0, 0, len)
FcShareOfAdd(deposit_required_for_fc_deposits, len) ==
    AddRequiredDeposit(<<0, 0>>, 0, 0, 0, 0, 0, deposit_required_for_fc_deposits, 0, 0, len)
    - AddRequiredDeposit(<<0, 0>>, 0, 0, 0, 0, 0, 0, 0, 0, len)

C19_NoKeyBeforeFunding ==
    \A d \in DOMAIN ft_status :
        ft_status[d] \in {"Pending", "Failed"}
            => DOMAIN drop_for_id[d].pks \cap DOMAIN access_keys = {}

\* C20: every key of every drop is recorded with remaining_uses = uses per
\* key, last_used = 0 and allowance = base allowance of the drop's
\* required_gas * uses per key, whether create_drop or add_keys admitted it,
\* and the access key of a key that has one carries the same allowance.
C20_KeyAllowance ==
    \A d \in DOMAIN drop_for_id : \A k \in DOMAIN drop_for_id[d].pks :
        LET drop == drop_for_id[d]
            info == drop.pks[k]
        IN  /\ info.remaining_uses = UsesPerKey(drop)
            /\ info.last_used = 0
            /\ info.allowance
                 = calculate_base_allowance(drop.required_gas) * UsesPerKey(drop)
            /\ k \in DOMAIN access_keys => access_keys[k].allowance = info.allowance
            /\ drop.drop_type.kind # "FungibleToken" => k \in DOMAIN access_keys

\* a drop of two uses per key and a drop with a gas override, each with a key
\* whose access key has the allowance of the drop's uses and gas
C20_Witness ==
    \E d, e \in DOMAIN drop_for_id :
        /\ UsesPerKey(drop_for_id[d]) = 2
        /\ IsSome(drop_for_id[e].drop_type.attached_gas)
        /\ \A x \in {d, e} :
               /\ DOMAIN drop_for_id[x].pks # {}
               /\ \A k \in DOMAIN drop_for_id[x].pks :
                      /\ k \in DOMAIN access_keys
                      /\ access_keys[k].allowance
                           = UsesPerKey(drop_for_id[x])
                             * calculate_base_allowance(drop_for_id[x].required_gas)
        /\ \E k \in DOMAIN drop_for_id[d].pks, l \in DOMAIN drop_for_id[e].pks :
               access_keys[k].allowance # access_keys[l].allowance

\* ----------------------------------------------------------------------
\* Drops of every claim permission, with and without a FunctionCall gas
\* override, funded by one account, over four keys in batches of up to two.
PermissionKeys == 301 .. 304
PermissionBatches == UNION {[1 .. n -> PermissionKeys] : n \in 0 .. 2}
ClaimPermissions == {"None", "Claim", "CreateAccountAndClaim"}
PermissionInputs ==
    {Args(1, NoneU, perms, NoFT, NoNFT, NoFC) : perms \in ClaimPermissions}
    \cup {Args(1, NoneU, "None", NoFT, NoNFT, SomeFC(<<SomeMethod(<<3>>)>>, NoneU))}
    \cup {Args(0, NoneU, perms, NoFT, NoNFT, SomeFC(<<SomeMethod(<<3>>)>>, 2)) :
             perms \in ClaimPermissions}

NextPermissions ==
    \/ \E public_keys \in PermissionBatches, a \in PermissionInputs :
           CreateDrop("alice", WithKeys(a, public_keys))
    \/ \E public_keys \in PermissionBatches, drop_id \in 0 .. MaxDrops :
           AddKeys("alice", public_keys, drop_id)

SpecPermissions == Init /\ [][NextPermissions]_vars

\* the method scope the stored drop calls for
ScopeOfDrop(drop) ==
    IF drop.drop_type.kind = "FunctionCall" /\ IsSome(drop.drop_type.attached_gas)
    THEN "claim"
    ELSE CASE drop.config.claim_permission = "Claim" -> "claim"
           [] drop.config.claim_permission = "CreateAccountAndClaim"
                -> "create_account_and_claim"
           [] OTHER -> "claim,create_account_and_claim"

\* C21: the access keys a committed create_drop or add_keys adds may call both
\* claim methods by default, only the method the drop's claim permission names
\* when it names one, and only claim when the drop's FunctionCall data has a
\* gas override, whatever the claim permission; add_keys gives its keys the
\* scope the drop's earlier access keys have, and no call changes the scope
\* of a key that has one.
C21_MethodScope ==
    [][/\ CreateStep =>
              \A k \in DOMAIN NewDrop.pks :
                  /\ k \in DOMAIN access_keys' \ DOMAIN access_keys
                  /\ access_keys'[k].method_names = ScopeOfDrop(NewDrop)
       /\ \A d \in DOMAIN drop_for_id :
              AddStep(d) =>
                  \A k \in DOMAIN drop_for_id'[d].pks \ DOMAIN drop_for_id[d].pks :
                      /\ k \in DOMAIN access_keys' \ DOMAIN access_keys
                      /\ access_keys'[k].method_names = ScopeOfDrop(drop_for_id[d])
                      /\ \A j \in DOMAIN drop_for_id[d].pks \cap DOMAIN access_keys :
                             access_keys'[k].method_names = access_keys[j].method_names
       /\ \A k \in DOMAIN access_keys :
              k \in DOMAIN access_keys' /\ access_keys'[k] = access_keys[k]]_vars

\* a drop with a gas override and the permission CreateAccountAndClaim holds
\* three keys, more than one batch, all of them claim only, beside a drop of
\* the same permission without an override whose key may only call
\* create_account_and_claim
C21_Witness ==
    \E d1, d2 \in DOMAIN drop_for_id :
        /\ IsSome(drop_for_id[d1].drop_type.attached_gas)
        /\ drop_for_id[d1].config.claim_permission = "CreateAccountAndClaim"
        /\ KeyCount(drop_for_id[d1]) = 3
        /\ \A k \in DOMAIN drop_for_id[d1].pks :
               access_keys[k].method_names = ACCESS_KEY_CLAIM_METHOD_NAME
        /\ ~IsSome(drop_for_id[d2].drop_type.attached_gas)
        /\ drop_for_id[d2].config.claim_permission = "CreateAccountAndClaim"
        /\ KeyCount(drop_for_id[d2]) = 1
        /\ \A k \in DOMAIN drop_for_id[d2].pks :
               access_keys[k].method_names = ACCESS_KEY_CREATE_ACCOUNT_METHOD_NAME

\* C22: within each drop the sequence ids follow the order of submission from
\* a counter that continues: a committed create_drop of N keys gives them the
\* ids 0 .. N-1 and stores next_key_id = N, a committed add_keys of M keys
\* gives them next_key_id .. next_key_id + M-1, keeps the ids of the keys
\* the drop had and advances next_key_id by M; so no two keys of a stored drop
\* share an id and every id is below the drop's next_key_id, which no call
\* lowers.
C22_SequenceIds ==
    /\ \A d \in DOMAIN drop_for_id :
           LET drop == drop_for_id[d]
           IN  /\ \A k \in DOMAIN drop.pks :
                      drop.pks[k].key_id >= 0 /\ drop.pks[k].key_id < drop.next_key_id
               /\ \A j, k \in DOMAIN drop.pks :
                      j # k => drop.pks[j].key_id # drop.pks[k].key_id
    /\ \A caller \in Accounts, public_keys \in Batches :
           /\ \A a \in CreateDropInputs :
                  LET r == CreateDropCall(caller, WithKeys(a, public_keys))
                  IN  r.ok =>
                          /\ r.drop.next_key_id = Len(public_keys)
                          /\ DOMAIN r.drop.pks = KeySet(public_keys)
                          /\ \A i \in 1 .. Len(public_keys) :
                                 r.drop.pks[public_keys[i]].key_id = i - 1
           /\ \A d \in DOMAIN drop_for_id :
                  LET r == AddKeysCall(caller, public_keys, d)
                      drop == drop_for_id[d]
                  IN  r.ok =>
                          /\ r.drop.next_key_id = drop.next_key_id + Len(public_keys)
                          /\ DOMAIN r.drop.pks = DOMAIN drop.pks \cup KeySet(public_keys)
                          /\ \A i \in 1 .. Len(public_keys) :
                                 r.drop.pks[public_keys[i]].key_id
                                     = drop.next_key_id + i - 1
                          /\ \A k \in DOMAIN drop.pks :
                                 r.drop.pks[k].key_id = drop.pks[k].key_id

\* a drop holds one key with the id 0 and its owner's add_keys would give the
\* other key the id 1, while a create_drop of the same key would give it 0
C22_Witness ==
    \E d \in DOMAIN drop_for_id, k \in Keys :
        LET drop == drop_for_id[d]
            r == AddKeysCall(drop.owner_id, <<k>>, d)
            c == CreateDropCall(drop.owner_id, WithKeys(PlainSimple, <<k>>))
        IN  /\ KeyCount(drop) = 1
            /\ drop.next_key_id = 1
            /\ r.ok /\ r.drop.pks[k].key_id = 1 /\ r.drop.next_key_id = 2
            /\ c.ok /\ c.drop.pks[k].key_id = 0 /\ c.drop.next_key_id = 1

\* C23: a committed create_drop stores its drop under the value next_drop_id
\* had before the call, an id under which no drop was stored, lists that id
\* under the funder and advances next_drop_id by exactly 1; no other step
\* changes next_drop_id or the set of stored ids (add_keys leaves both
\* alone); every stored id stays below next_drop_id, and a stored drop is
\* never removed and keeps its owner.
C23_FreshDropIds ==
    [][/\ next_drop_id' \in {next_drop_id, next_drop_id + 1}
       /\ IF CreateStep
          THEN /\ next_drop_id \notin DOMAIN drop_for_id
               /\ DOMAIN drop_for_id' = DOMAIN drop_for_id \cup {next_drop_id}
               /\ next_drop_id \in drop_ids_for_funder'[NewDrop.owner_id]
          ELSE /\ DOMAIN drop_for_id' = DOMAIN drop_for_id
               /\ drop_ids_for_funder' = drop_ids_for_funder
       /\ \A d \in DOMAIN drop_for_id :
              /\ AddStep(d) => next_drop_id' = next_drop_id
              /\ d \in DOMAIN drop_for_id'
              /\ drop_for_id'[d].owner_id = drop_for_id[d].owner_id
              /\ CreateStep => drop_for_id'[d] = drop_for_id[d]
       /\ \A d \in DOMAIN drop_for_id' : d < next_drop_id']_vars

\* two drops are stored under the ids 0 and 1 and next_drop_id is 2: the
\* first holds two keys, the second is a FungibleToken drop whose
\* continuation failed and which is stored still
C23_Witness ==
    /\ next_drop_id = 2
    /\ DOMAIN drop_for_id = {0, 1}
    /\ drop_for_id[0].next_key_id = 2
    /\ 1 \in DOMAIN ft_status /\ ft_status[1] = "Failed"
    /\ drop_ids_for_funder = [alice |-> {0, 1}]

\* ----------------------------------------------------------------------
\* Simple drops of a small and of a very large deposit per use, by a funder
\* with a fee schedule of its own and by one charged the default.
LargeDeposit == U128Max - 33
DepositInputs == {Args(d, NoneU, "None", NoFT, NoNFT, NoFC) : d \in {1, LargeDeposit}}

NextDeposits ==
    \/ \E caller \in Accounts, public_keys \in Batches, a \in DepositInputs :
           CreateDrop(caller, WithKeys(a, public_keys))
    \/ \E caller \in Accounts, public_keys \in Batches, drop_id \in 0 .. MaxDrops :
           AddKeys(caller, public_keys, drop_id)

SpecDeposits == Init /\ [][NextDeposits]_vars
SpecDepositsChecked == InitChecked /\ [][NextDeposits]_vars

\* the fee schedule a funder is charged by: its own, or the default
ScheduleOf(owner) ==
    IF owner \in DOMAIN fees_per_user THEN fees_per_user[owner]
    ELSE <<drop_fee, key_fee>>

\* C24: a committed create_drop of N keys raises fees_collected by exactly
\* the drop fee + the key fee * N of its funder's schedule, a committed
\* add_keys of M keys by exactly the key fee * M, each of them no more than
\* the call debits its funder in the same step; no other step changes
\* fees_collected, so the total never exceeds the sum of the debits.
C24_FeesWithDebit ==
    [][/\ CreateStep =>
              LET owner == NewDrop.owner_id
                  credit == ScheduleOf(owner)[1] + ScheduleOf(owner)[2] * KeyCount(NewDrop)
              IN  /\ fees_collected' = fees_collected + credit
                  /\ credit <= user_balances[owner] - user_balances'[owner]
       /\ \A d \in DOMAIN drop_for_id :
              AddStep(d) =>
                  LET owner == drop_for_id[d].owner_id
                      credit == ScheduleOf(owner)[2]
                                * (KeyCount(drop_for_id'[d]) - KeyCount(drop_for_id[d]))
                  IN  /\ fees_collected' = fees_collected + credit
                      /\ credit <= user_balances[owner] - user_balances'[owner]
       /\ (~CreateStep /\ \A d \in DOMAIN drop_for_id : ~AddStep(d))
              => fees_collected' = fees_collected]_vars

\* the storage a stored drop and its keys take up, no token id being held
ShellBytes(drop) ==
    KeyCount(drop) * (PkEntryBytes + ReverseEntryBytes)
    + FunderDropBytes + MetadataBytes(drop.metadata) + DropBytes(drop.drop_type)

\* C25: a committed NonFungibleToken create_drop stores the drop with no
\* token id and with storage_for_longest equal to what inserting the one
\* longest token id added to the storage in use; the storage in use is then
\* back at what the drop and its keys take up without the token id, and the
\* storage the funder is charged for is that, the token id not included.
C25_NftProbeUndone ==
    [][(CreateStep /\ NewDrop.drop_type.kind = "NonFungibleToken") =>
           LET drop == NewDrop
               owner == drop.owner_id
               delta == storage_usage' - storage_usage
           IN  /\ drop.drop_type.token_ids = << >>
               /\ drop.drop_type.storage_for_longest
                      = TokenIdBytes(drop.drop_type.longest_token_id)
               /\ delta = ShellBytes(drop)
               /\ user_balances[owner] - user_balances'[owner]
                      = SpecRequiredCreate(drop, KeyCount(drop), ShellBytes(drop))]_vars

\* a NonFungibleToken drop with keys is stored with an empty token id vector
\* and the measured cost of its longest token id, and the storage in use is
\* what the stored drops and their keys take up
C25_Witness ==
    \E d \in DOMAIN drop_for_id :
        /\ drop_for_id[d].drop_type.kind = "NonFungibleToken"
        /\ KeyCount(drop_for_id[d]) = 2
        /\ drop_for_id[d].drop_type.token_ids = << >>
        /\ drop_for_id[d].drop_type.storage_for_longest = 2
        /\ next_drop_id = 1
        /\ storage_usage = ShellBytes(drop_for_id[d])

\* the panics of the checks a call makes on its arguments and its caller
ArgumentErrors ==
    {"InvalidConfig", "NoUserBalance", "DuplicateKey", "NoDropFound", "NotOwner"}
NoneMethods(methods) ==
    Cardinality({i \in 1 .. Len(methods) : ~methods[i].is_some})

\* C26: in every create_drop and add_keys call on a FunctionCall drop that
\* none of the checks on its arguments rejects, the number of None method data
\* is at most the uses per key, so that the u64 difference uses per key -
\* None count charged at deposit_per_use is the true difference; this for
\* every uses_per_key, 0 with a single None method data included.
C26_NoneCountWithinUses ==
    \A caller \in Accounts, public_keys \in Batches :
        /\ \A a \in CreateDropInputs :
               LET r == CreateDropCall(caller, WithKeys(a, public_keys))
                   uses == UnwrapOr(a.config.uses_per_key, 1)
                   none == NoneMethods(a.fc_data.methods)
               IN  (a.fc_data.is_some /\ r.error \notin ArgumentErrors) =>
                       /\ none <= uses
                       /\ UsesCharged(uses, none) = uses - none
        /\ \A d \in DOMAIN drop_for_id :
               LET r == AddKeysCall(caller, public_keys, d)
                   drop == drop_for_id[d]
               IN  (drop.drop_type.kind = "FunctionCall" /\ r.error \notin ArgumentErrors) =>
                       /\ NoneCount(drop) <= UsesPerKey(drop)
                       /\ UsesCharged(UsesPerKey(drop), NoneCount(drop))
                              = UsesPerKey(drop) - NoneCount(drop)

\* a batch that names one key twice
HasRepeatedKey(public_keys) ==
    \E i, j \in 1 .. Len(public_keys) : i # j /\ public_keys[i] = public_keys[j]

\* C27: a batch that names a key twice is rejected as a whole by create_drop
\* and by add_keys, also when no drop held the key before, and so is an
\* add_keys batch with a key the same drop holds already: the call panics at
\* the key (or before the keys are looked at) and, being reverted, admits no
\* key of the batch, overwrites no KeyInfo and debits nothing.
C27_RepeatedKeyRejectsBatch ==
    \A caller \in Accounts, public_keys \in Batches :
        /\ HasRepeatedKey(public_keys) =>
               /\ \A a \in CreateDropInputs :
                      LET r == CreateDropCall(caller, WithKeys(a, public_keys))
                      IN  /\ ~r.ok
                          /\ r.error \in {"DuplicateKey", "InvalidConfig", "NoUserBalance",
                                          "ArithmeticOverflow"}
               /\ \A drop_id \in 0 .. MaxDrops :
                      LET r == AddKeysCall(caller, public_keys, drop_id)
                      IN  /\ ~r.ok
                          /\ r.error \in {"DuplicateKey", "NoDropFound", "NotOwner",
                                          "ArithmeticOverflow"}
        /\ \A d \in DOMAIN drop_for_id :
               KeySet(public_keys) \cap DOMAIN drop_for_id[d].pks # {} =>
                   LET r == AddKeysCall(caller, public_keys, d)
                   IN  /\ ~r.ok
                       /\ r.error \in {"DuplicateKey", "NotOwner", "ArithmeticOverflow"}

\* a drop holds one key with the sequence id 0; its owner, able to pay, has a
\* batch naming the free key twice rejected with DuplicateKey by create_drop
\* and by add_keys, and a batch of the free key and the drop's own key by
\* add_keys
C27_Witness ==
    \E d \in DOMAIN drop_for_id, k, f \in Keys :
        LET drop == drop_for_id[d]
        IN  /\ DOMAIN drop.pks = {k} /\ drop.pks[k].key_id = 0
            /\ f \notin DOMAIN drop_id_for_pk
            /\ drop.drop_type.kind = "Simple"
            /\ user_balances[drop.owner_id] > 1000
            /\ CreateDropCall(drop.owner_id, WithKeys(PlainSimple, <<f, f>>)).error
                   = "DuplicateKey"
            /\ AddKeysCall(drop.owner_id, <<f, f>>, d).error = "DuplicateKey"
            /\ AddKeysCall(drop.owner_id, <<f, k>>, d).error = "DuplicateKey"
====
